---- MODULE Spec2Model ----
(***************************************************************************)
(* Three-body simulator: Body (objects/body.py), Canvas (objects/canvas.py) *)
(* and the Simulation instance (simulation.py) with the stop handler of the *)
(* standalone runner (run.py).                                              *)
(*                                                                          *)
(* Numbers.  The program computes in floating point.  Here every length and *)
(* velocity is a fixed-point integer counting 1/Unit pixel (per tick), and  *)
(* every division rounds toward zero (Quot).  A fractional program constant *)
(* is a pair <<numerator, denominator>>.  Intermediate values stay below    *)
(* 2^31.                                                                    *)
(***************************************************************************)
EXTENDS Integers, Sequences, FiniteSets, TLC

VARIABLES
    canvas,   \* Simulation._canvas: [bodies, show_vectors, show_trails, show_graph]
    run,      \* run.py Simulation._run
    params,   \* Simulation._params (SimulationParams), fixed at construction
    ticks,    \* updates applied since the bodies were last created
    trace,    \* the last two operations performed, most recent first
    loop,     \* the position of a Canvas.update in progress and the calls it made
    runner    \* run.py: the position of Simulation.run, its event list and frame counts

vars == <<canvas, run, params, ticks, trace, loop, runner>>

----------------------------------------------------------------------------
(* Fixed-point resolution and bounds of the exploration.                    *)

Unit == 1000

MaxTicks == 3

MaxCalls == 3

HistTicks == 1003

----------------------------------------------------------------------------
(* constants.py                                                             *)

WIDTH == 1000

HEIGHT == 1000

BODY_TRAIL_LENGTH == 1000

GRAVITATIONAL_CONSTANT == <<6, 10>>

MAX_BODY_RADIUS == 100

MIN_BODY_RADIUS == 2

DEFAULT_BODY_DENSITY == 1

DEFAULT_BODY_MASS == 1000

DEFAULT_BODY_DISTANCE == (WIDTH * Unit) \div 3

DEFAULT_BODY_VELOCITY_FACTOR == <<3, 1000>>

VELOCITY_LOSS_FACTOR == <<9, 10>>

\* math.pi and math.sqrt(3) as ratios
PI == <<355, 113>>

SQRT3 == <<1732, 1000>>

----------------------------------------------------------------------------
(* Arithmetic.                                                              *)

\* a / b rounded toward zero (b > 0)
Quot(a, b) == IF a >= 0 THEN a \div b ELSE -((-a) \div b)

RECURSIVE SqrtIter(_, _, _)
SqrtIter(n, lo, hi) ==
    IF lo >= hi THEN lo
    ELSE LET mid == (lo + hi + 1) \div 2
         IN  IF mid * mid <= n THEN SqrtIter(n, mid, hi)
             ELSE SqrtIter(n, lo, mid - 1)

\* math.sqrt on a non-negative integer: the largest r with r * r <= n
Isqrt(n) == SqrtIter(n, 0, 46340)

RECURSIVE CbrtIter(_, _, _)
CbrtIter(n, lo, hi) ==
    IF lo >= hi THEN lo
    ELSE LET mid == (lo + hi + 1) \div 2
         IN  IF mid * mid * mid <= n THEN CbrtIter(n, mid, hi)
             ELSE CbrtIter(n, lo, mid - 1)

\* the largest r with r^3 <= n
Icbrt(n) == CbrtIter(n, 0, 1290)

\* (m / d) ** (1 / 3) in hundredths
CubeRoot100(m, d) ==
    IF m <= 2000 THEN Icbrt((m * 1000000) \div d)
    ELSE 10 * Icbrt((m * 1000) \div d)

----------------------------------------------------------------------------
(* objects/body.py                                                          *)

\* Body._calculate_radius: (3 / 4 * pi) * (mass / density) ** (1 / 3), clamped
CalculateRadius(mass, density) ==
    LET raw == Quot(Quot(3 * PI[1] * CubeRoot100(mass, density), 4 * PI[2]) * Unit, 100)
    IN  IF raw > MAX_BODY_RADIUS * Unit THEN MAX_BODY_RADIUS * Unit
        ELSE IF raw < MIN_BODY_RADIUS * Unit THEN MIN_BODY_RADIUS * Unit
        ELSE raw

\* Body._init_last_positions: deque(maxlen = BODY_TRAIL_LENGTH)
InitLastPositions == << >>

\* Body.__init__
Body(number, mass, init_x, init_y, init_vector, is_stationary, g_constant, density) ==
    [ number        |-> number,
      mass          |-> mass,
      x             |-> init_x,
      y             |-> init_y,
      vector        |-> init_vector,
      is_stationary |-> is_stationary,
      g_constant    |-> g_constant,
      density       |-> density,
      pos_history   |-> InitLastPositions,
      radius        |-> CalculateRadius(mass, density) ]

\* -VELOCITY_LOSS_FACTOR * v
Damped(v) == -Quot(VELOCITY_LOSS_FACTOR[1] * v, VELOCITY_LOSS_FACTOR[2])

\* a boundary check that reverses the whole vector on a bounce
CheckAndUpdateBoundaryWholeVector(vector, axis, limit, radius, vector_index) ==
    IF axis < radius
    THEN [ axis |-> Unit + radius, vector |-> <<Damped(vector[1]), Damped(vector[2])>> ]
    ELSE IF axis > limit - radius
    THEN [ axis |-> limit - radius, vector |-> <<Damped(vector[1]), Damped(vector[2])>> ]
    ELSE [ axis |-> axis, vector |-> vector ]

\* a boundary check that puts a body past the far wall on the wall itself
CheckAndUpdateBoundaryOnWall(vector, axis, limit, radius, vector_index) ==
    IF axis < radius
    THEN [ axis   |-> Unit + radius,
           vector |-> [vector EXCEPT ![vector_index + 1] = Damped(@)] ]
    ELSE IF axis > limit - radius
    THEN [ axis   |-> limit,
           vector |-> [vector EXCEPT ![vector_index + 1] = Damped(@)] ]
    ELSE [ axis |-> axis, vector |-> vector ]

\* Body._check_and_update_boundary: the returned axis and the body's vector
\* after the call (vector_index is 0 or 1 as in the program)
CheckAndUpdateBoundary(vector, axis, limit, radius, vector_index) ==
    IF axis < radius
    THEN [ axis   |-> Unit + radius,
           vector |-> [vector EXCEPT ![vector_index + 1] = Damped(@)] ]
    ELSE IF axis > limit - radius
    THEN [ axis   |-> limit - radius,
           vector |-> [vector EXCEPT ![vector_index + 1] = Damped(@)] ]
    ELSE [ axis |-> axis, vector |-> vector ]

\* a history that never drops an entry
DequeAppendUnbounded(history, entry) == Append(history, entry)

\* deque.append on a deque with maxlen: a full deque drops its first entry
DequeAppend(history, entry) ==
    IF Len(history) >= BODY_TRAIL_LENGTH
    THEN Append(Tail(history), entry)
    ELSE Append(history, entry)

\* Body._update_pos_history
UpdatePosHistory(b) ==
    [b EXCEPT !.pos_history = DequeAppend(@, <<b.x, b.y>>)]

\* Body.update
Update(b) ==
    LET moved == [b EXCEPT !.x = @ + b.vector[1], !.y = @ + b.vector[2]]
        rec   == UpdatePosHistory(moved)
        bx    == CheckAndUpdateBoundary(rec.vector, rec.x, WIDTH * Unit, rec.radius, 0)
        by    == CheckAndUpdateBoundary(bx.vector, rec.y, HEIGHT * Unit, rec.radius, 1)
    IN  [rec EXCEPT !.x = bx.axis, !.y = by.axis, !.vector = by.vector]

\* a coordinate difference in 1/25 pixel, the resolution distances are taken in
Coarse(v) == Quot(v * 25, Unit)

\* d = math.sqrt((self._x - other._x) ** 2 + (self._y - other._y) ** 2), in 1/25 pixel
Distance(self, other) ==
    LET dx == Coarse(self.x - other.x)
        dy == Coarse(self.y - other.y)
    IN  Isqrt(dx * dx + dy * dy)

\* a contact test that lets bodies exactly touching attract
InContactStrict(self, other) ==
    Distance(self, other) * Unit < (self.radius + other.radius) * 25

\* d <= self._radius + other._radius
InContact(self, other) ==
    Distance(self, other) * Unit <= (self.radius + other.radius) * 25

\* Body.calculate_impact_on past its guards: the pull of other added to
\* self's vector
Attract(self, other) ==
    LET d   == Distance(self, other)
        dx  == Coarse(self.x - other.x)
        dy  == Coarse(self.y - other.y)
        gravitational_force ==
            Quot(Quot(self.g_constant[1] * self.mass * other.mass,
                      self.g_constant[2]) * Unit,
                 Quot(d * d, 25 * 25))
        Fx  == Quot(gravitational_force * dx, d)
        Fy  == Quot(gravitational_force * dy, d)
    IN  [self EXCEPT !.vector = << @[1] - Quot(Fx, self.mass),
                                   @[2] - Quot(Fy, self.mass) >>]

\* calculate_impact_on without the stationary guard
CalculateImpactOnMoving(self, other, same_object) ==
    IF same_object THEN self
    ELSE IF Distance(self, other) * Unit <= (self.radius + other.radius) * 25 THEN self
    ELSE Attract(self, other)

\* Body.calculate_impact_on: self after the call (other is only read);
\* same_object is the program's self == other
CalculateImpactOn(self, other, same_object) ==
    IF self.is_stationary \/ same_object THEN self
    ELSE IF InContact(self, other) THEN self
    ELSE Attract(self, other)

----------------------------------------------------------------------------
(* objects/canvas.py                                                        *)

\* Canvas.__init__
NewCanvas ==
    [ bodies       |-> << >>,
      show_vectors |-> FALSE,
      show_trails  |-> FALSE,
      show_graph   |-> TRUE ]

ToggleDrawVectors(c) == [c EXCEPT !.show_vectors = ~@]

\* a trail toggle that also clears the trails
ToggleDrawTrailsClear(c) ==
    [c EXCEPT !.show_trails = ~@,
              !.bodies = [i \in 1..Len(@) |-> [@[i] EXCEPT !.pos_history = << >>]]]

ToggleDrawTrails(c) == [c EXCEPT !.show_trails = ~@]

TogglePlotGraph(c) == [c EXCEPT !.show_graph = ~@]

\* a reset that keeps the bodies
CanvasResetKeep(c) == c

\* a reset that also puts the toggle flags back
CanvasResetFlags(c) ==
    [ bodies       |-> << >>,
      show_vectors |-> FALSE,
      show_trails  |-> FALSE,
      show_graph   |-> TRUE ]

\* Canvas.reset
CanvasReset(c) == [c EXCEPT !.bodies = << >>]

\* Canvas.add_body (density is left at the Body default)
AddBody(c, number, mass, init_x, init_y, init_vector, is_stationary, g_constant) ==
    [c EXCEPT !.bodies =
        Append(@, Body(number, mass, init_x, init_y, init_vector,
                       is_stationary, g_constant, DEFAULT_BODY_DENSITY))]

\* the inner loop of Canvas.update for body1 = bs[i], from body2 = bs[j] on
RECURSIVE ImpactLoop(_, _, _)
ImpactLoop(bs, i, j) ==
    IF j > Len(bs) THEN bs
    ELSE IF i = j THEN ImpactLoop(bs, i, j + 1)
    ELSE ImpactLoop([bs EXCEPT ![i] = CalculateImpactOn(bs[i], bs[j], FALSE)], i, j + 1)

\* the outer loop of Canvas.update, from body1 = bs[i] on
RECURSIVE UpdateLoop(_, _)
UpdateLoop(bs, i) ==
    IF i > Len(bs) THEN bs
    ELSE UpdateLoop([ImpactLoop(bs, i, 1) EXCEPT ![i] = Update(@)], i + 1)

\* Canvas.update
CanvasUpdate(c) == [c EXCEPT !.bodies = UpdateLoop(@, 1)]

----------------------------------------------------------------------------
(* simulation_params.py, simulation.py                                      *)

\* SimulationParams()
DefaultParams ==
    [ body_distance |-> DEFAULT_BODY_DISTANCE,
      mass          |-> DEFAULT_BODY_MASS,
      g_constant    |-> GRAVITATIONAL_CONSTANT ]

\* int(v): the whole pixels of v
IntCast(v) == Quot(v, Unit) * Unit

\* bodies_init_pos of Simulation._init_bodies
BodiesInitPos(p) ==
    LET center_x == (WIDTH * Unit) \div 2
        center_y == (HEIGHT * Unit) \div 2
        height   == Quot(SQRT3[1] * p.body_distance, 2 * SQRT3[2])
    IN  << << center_x - p.body_distance \div 2, center_y + height \div 2 >>,
           << center_x + p.body_distance \div 2, center_y + height \div 2 >>,
           << center_x, center_y - height \div 2 >> >>

\* the loop of Simulation._init_bodies, from body i on
RECURSIVE InitBodiesLoop(_, _, _)
InitBodiesLoop(c, p, i) ==
    IF i > 3 THEN c
    ELSE LET pos  == BodiesInitPos(p)
             init_pos      == pos[i]
             next_init_pos == pos[(i % 3) + 1]
             vel_vector ==
                 << Quot((next_init_pos[1] - init_pos[1]) * DEFAULT_BODY_VELOCITY_FACTOR[1],
                         DEFAULT_BODY_VELOCITY_FACTOR[2]),
                    Quot((next_init_pos[2] - init_pos[2]) * DEFAULT_BODY_VELOCITY_FACTOR[1],
                         DEFAULT_BODY_VELOCITY_FACTOR[2]) >>
         IN  InitBodiesLoop(
                 AddBody(c, i, p.mass, IntCast(init_pos[1]), IntCast(init_pos[2]),
                         vel_vector, FALSE, p.g_constant),
                 p, i + 1)

\* Simulation._init_bodies
InitBodies(c, p) == InitBodiesLoop(c, p, 1)

\* Simulation._init_canvas
InitCanvas(p) == InitBodies(NewCanvas, p)

\* Simulation.reset
SimulationReset(c, p) == InitBodies(CanvasReset(c), p)

\* Simulation.run: one tick (the draw pass changes no state)
SimulationRun(c) == CanvasUpdate(c)

----------------------------------------------------------------------------
(* run.py                                                                   *)

\* a stop handler that flips the run flag
HandleStopFlip(r) == ~r

\* Simulation._handle_stop
HandleStop(r) == FALSE

----------------------------------------------------------------------------
(* The record of operations.                                                *)

Op(name, i, j) == [op |-> name, i |-> i, j |-> j]

Logged(o) == <<o, trace[1]>>

NoTrace == << Op("init", 0, 0), Op("init", 0, 0) >>

\* no Canvas.update in progress
NoLoop == [i |-> 0, j |-> 0, calls |-> << >>]

\* Simulation.run of run.py not entered
NoRunner == [pc |-> "off", events |-> << >>, frames |-> 0, flips |-> 0]

----------------------------------------------------------------------------
(* Spec: one simulation instance, ticked while the run flag is set, and the *)
(* commands of the input collaborator delivered in any order.               *)

\* the parameter tuples an instance is constructed with
ParamSet ==
    { DefaultParams,
      [DefaultParams EXCEPT !.body_distance = 960 * Unit] }

Init ==
    /\ params \in ParamSet
    /\ canvas = InitCanvas(params)
    /\ run = TRUE
    /\ ticks = 0
    /\ trace = NoTrace
    /\ loop = NoLoop
    /\ runner = NoRunner

\* one pass of the tick loop: Simulation.run
Tick ==
    /\ run
    /\ ticks < MaxTicks
    /\ canvas' = SimulationRun(canvas)
    /\ ticks' = ticks + 1
    /\ trace' = Logged(Op("run", 0, 0))
    /\ UNCHANGED <<run, params, loop, runner>>

\* Simulation.toggle_show_vectors
CmdShowVectors ==
    /\ canvas' = ToggleDrawVectors(canvas)
    /\ trace' = Logged(Op("show_vectors", 0, 0))
    /\ UNCHANGED <<run, params, ticks, loop, runner>>

\* Simulation.toggle_draw_trails
CmdShowTrails ==
    /\ canvas' = ToggleDrawTrails(canvas)
    /\ trace' = Logged(Op("show_trails", 0, 0))
    /\ UNCHANGED <<run, params, ticks, loop, runner>>

\* Simulation.toggle_show_graph
CmdShowGraph ==
    /\ canvas' = TogglePlotGraph(canvas)
    /\ trace' = Logged(Op("show_graph", 0, 0))
    /\ UNCHANGED <<run, params, ticks, loop, runner>>

\* Simulation.reset
CmdReset ==
    /\ canvas' = SimulationReset(canvas, params)
    /\ ticks' = 0
    /\ trace' = Logged(Op("reset", 0, 0))
    /\ UNCHANGED <<run, params, loop, runner>>

\* the stop command: Simulation._handle_stop of run.py
CmdStop ==
    /\ run' = HandleStop(run)
    /\ trace' = Logged(Op("stop", 0, 0))
    /\ UNCHANGED <<canvas, params, ticks, loop, runner>>

Next ==
    \/ Tick
    \/ CmdShowVectors
    \/ CmdShowTrails
    \/ CmdShowGraph
    \/ CmdReset
    \/ CmdStop

Spec == Init /\ [][Next]_vars

----------------------------------------------------------------------------
(* SpecBody: a client that constructs up to two Body objects and then calls *)
(* calculate_impact_on and update on them, MaxCalls times.                  *)

\* constructor arguments: a body about to cross each wall, a corner, two
\* bodies exactly touching, coincident bodies, a stationary body, a light body
BodyInputs ==
    { [mass |-> 1000, density |-> 1, x |-> 25 * Unit,  y |-> 500 * Unit,
       vector |-> <<-3 * Unit, 0>>, is_stationary |-> FALSE],
      [mass |-> 1000, density |-> 1, x |-> 975 * Unit, y |-> 976 * Unit,
       vector |-> <<(5 * Unit) \div 2, (3 * Unit) \div 2>>, is_stationary |-> FALSE],
      [mass |-> 1000, density |-> 1, x |-> 500 * Unit, y |-> 24 * Unit,
       vector |-> <<Unit \div 2, -2 * Unit>>, is_stationary |-> FALSE],
      [mass |-> 1000, density |-> 1, x |-> 400 * Unit, y |-> 500 * Unit,
       vector |-> <<0, 0>>, is_stationary |-> FALSE],
      [mass |-> 1000, density |-> 1,
       x |-> 400 * Unit + 2 * CalculateRadius(1000, 1), y |-> 500 * Unit,
       vector |-> <<Unit, -Unit>>, is_stationary |-> FALSE],
      [mass |-> 1000, density |-> 1, x |-> 400 * Unit, y |-> 500 * Unit,
       vector |-> <<Unit, Unit>>, is_stationary |-> FALSE],
      [mass |-> 1000, density |-> 1, x |-> 600 * Unit, y |-> 500 * Unit,
       vector |-> <<0, 0>>, is_stationary |-> TRUE],
      [mass |-> 1, density |-> 2, x |-> 400 * Unit, y |-> 300 * Unit,
       vector |-> <<0, Unit>>, is_stationary |-> FALSE] }

InitBody ==
    /\ params = DefaultParams
    /\ canvas = NewCanvas
    /\ run = TRUE
    /\ ticks = 0
    /\ trace = NoTrace
    /\ loop = NoLoop
    /\ runner = NoRunner

\* Body(...)
Construct ==
    /\ ticks = 0
    /\ Len(canvas.bodies) < 2
    /\ \E t \in BodyInputs :
          canvas' = [canvas EXCEPT !.bodies =
              Append(@, Body(Len(canvas.bodies) + 1, t.mass, t.x, t.y, t.vector,
                             t.is_stationary, GRAVITATIONAL_CONSTANT, t.density))]
    /\ trace' = Logged(Op("construct", Len(canvas.bodies) + 1, 0))
    /\ UNCHANGED <<run, params, ticks, loop, runner>>

\* bodies[i].calculate_impact_on(bodies[j])
Impact ==
    /\ ticks < MaxCalls
    /\ \E i \in 1..Len(canvas.bodies), j \in 1..Len(canvas.bodies) :
          /\ canvas' = [canvas EXCEPT !.bodies[i] =
                           CalculateImpactOn(@, canvas.bodies[j], i = j)]
          /\ trace' = Logged(Op("impact", i, j))
    /\ ticks' = ticks + 1
    /\ UNCHANGED <<run, params, loop, runner>>

\* bodies[i].update()
UpdateBody ==
    /\ ticks < MaxCalls
    /\ \E i \in 1..Len(canvas.bodies) :
          /\ canvas' = [canvas EXCEPT !.bodies[i] = Update(@)]
          /\ trace' = Logged(Op("update", i, 0))
    /\ ticks' = ticks + 1
    /\ UNCHANGED <<run, params, loop, runner>>

NextBody ==
    \/ Construct
    \/ Impact
    \/ UpdateBody

SpecBody == InitBody /\ [][NextBody]_vars

----------------------------------------------------------------------------
(* SpecHistory: one Body updated HistTicks times, past the capacity of its  *)
(* position history.                                                        *)

HistoryInputs ==
    { t \in BodyInputs : t.vector[1] # 0 /\ t.vector[2] # 0 /\ t.mass = 1000 }

InitHistory ==
    /\ params = DefaultParams
    /\ \E t \in HistoryInputs :
          canvas = [NewCanvas EXCEPT !.bodies =
              << Body(1, t.mass, t.x, t.y, t.vector, t.is_stationary,
                      GRAVITATIONAL_CONSTANT, t.density) >>]
    /\ run = TRUE
    /\ ticks = 0
    /\ trace = NoTrace
    /\ loop = NoLoop
    /\ runner = NoRunner

\* bodies[1].update()
HistoryUpdate ==
    /\ ticks < HistTicks
    /\ canvas' = [canvas EXCEPT !.bodies[1] = Update(@)]
    /\ ticks' = ticks + 1
    /\ trace' = Logged(Op("update", 1, 0))
    /\ UNCHANGED <<run, params, loop, runner>>

NextHistory == HistoryUpdate

SpecHistory == InitHistory /\ [][NextHistory]_vars

----------------------------------------------------------------------------
(* Claims about Body, checked under SpecBody and SpecHistory.               *)

Bodies == canvas.bodies

Last == trace[1]

Min(a, b) == IF a <= b THEN a ELSE b

\* what the boundary check is to make of one axis: position pos and velocity
\* vel before update(), pos1 and vel1 after it
Reflected(pos, vel, pos1, vel1, limit, radius) ==
    LET moved == pos + vel
    IN  IF moved < radius
        THEN pos1 = radius + Unit /\ vel1 = Damped(vel)
        ELSE IF moved > limit - radius
        THEN pos1 = limit - radius /\ vel1 = Damped(vel)
        ELSE pos1 = moved /\ vel1 = vel

\* C1: every update() of a body leaves each axis as the boundary reflection
\* prescribes: below radius after the move, the coordinate becomes radius + 1
\* and that velocity component -loss_factor times its old value; above
\* limit - radius it becomes limit - radius with the same damping; otherwise
\* the moved coordinate and the old velocity component stand.  Each axis is
\* decided from its own coordinate and velocity component alone.
C1_BoundaryReflection ==
    [][\A i \in 1..Len(Bodies) :
          trace'[1] = Op("update", i, 0) =>
              LET b == Bodies[i]
                  a == canvas'.bodies[i]
              IN  /\ Reflected(b.x, b.vector[1], a.x, a.vector[1], WIDTH * Unit, b.radius)
                  /\ Reflected(b.y, b.vector[2], a.y, a.vector[2], HEIGHT * Unit, b.radius)
      ]_vars

\* the position a body's last update() moved it to, before the boundary check
MovedTo(b) == b.pos_history[Len(b.pos_history)]

\* C1 witness: after an update(), one body has bounced off the near x wall
\* with its y axis untouched, and another off both far walls at once
C1_Witness ==
    /\ Last.op = "update"
    /\ \E i, j \in 1..Len(Bodies) :
          LET b == Bodies[i]
              c == Bodies[j]
          IN  /\ Len(b.pos_history) = 1 /\ Len(c.pos_history) = 1
              /\ MovedTo(b)[1] < b.radius /\ b.x = b.radius + Unit
              /\ MovedTo(b)[2] = b.y
              /\ MovedTo(c)[1] > WIDTH * Unit - c.radius
              /\ MovedTo(c)[2] > HEIGHT * Unit - c.radius
              /\ c.x = WIDTH * Unit - c.radius /\ c.y = HEIGHT * Unit - c.radius

\* C3: calculate_impact_on changes nothing, neither self nor other, when self
\* is stationary or when other is self
C3_ImpactNoOp ==
    [][\A i, j \in 1..Len(Bodies) :
          (trace'[1] = Op("impact", i, j) /\ (Bodies[i].is_stationary \/ i = j))
              => canvas' = canvas
      ]_vars

\* C3 witness: a body was just impacted by itself, right after a stationary
\* body was impacted by a distinct body far enough to attract it
C3_Witness ==
    /\ Last.op = "impact" /\ Last.i = Last.j
    /\ ~Bodies[Last.i].is_stationary
    /\ trace[2].op = "impact" /\ trace[2].i # trace[2].j
    /\ Bodies[trace[2].i].is_stationary
    /\ ~InContact(Bodies[trace[2].i], Bodies[trace[2].j])

\* C4: calculate_impact_on between two distinct bodies at a distance of at most
\* the sum of their radii leaves self's velocity as it was; the velocity
\* changes only at a distance above that sum, which is above zero
C4_ContactGuard ==
    [][\A i, j \in 1..Len(Bodies) :
          trace'[1] = Op("impact", i, j) =>
              LET d == Distance(Bodies[i], Bodies[j])
                  r == Bodies[i].radius + Bodies[j].radius
              IN  /\ (i # j /\ d * Unit <= r * 25)
                        => canvas'.bodies[i].vector = Bodies[i].vector
                  /\ canvas'.bodies[i].vector # Bodies[i].vector
                        => (d * Unit > r * 25 /\ d > 0 /\ r > 0)
      ]_vars

\* C4 witness: a moving body was just impacted by a distinct body at exactly
\* the sum of the radii
C4_Witness ==
    /\ Last.op = "impact" /\ Last.i # Last.j
    /\ ~Bodies[Last.i].is_stationary
    /\ Distance(Bodies[Last.i], Bodies[Last.j]) * Unit
           = (Bodies[Last.i].radius + Bodies[Last.j].radius) * 25
    /\ Bodies[Last.i].vector # <<0, 0>>

\* C5: the history holds min(updates, capacity) entries, never more than the
\* capacity, and each update() appends the moved position at the end, dropping
\* exactly the first entry when the history is full
C5_HistoryBound ==
    [][\A i \in 1..Len(Bodies) :
          LET h  == Bodies[i].pos_history
              h1 == canvas'.bodies[i].pos_history
              b  == Bodies[i]
              moved == <<b.x + b.vector[1], b.y + b.vector[2]>>
          IN  /\ Len(h) = Min(ticks, BODY_TRAIL_LENGTH)
              /\ Len(h1) = Min(ticks', BODY_TRAIL_LENGTH)
              /\ trace'[1] = Op("update", i, 0) =>
                     IF Len(h) < BODY_TRAIL_LENGTH
                     THEN h1 = Append(h, moved)
                     ELSE h1 = Append(Tail(h), moved)
      ]_vars

\* C5 witness: more updates than the capacity, a full history whose first
\* entry is no longer the first position recorded
C5_Witness ==
    /\ ticks > BODY_TRAIL_LENGTH + 1
    /\ Last.op = "update"
    /\ Len(Bodies[1].pos_history) = BODY_TRAIL_LENGTH
    /\ Bodies[1].pos_history[1] # Bodies[1].pos_history[2]

\* cube root of the whole quotient 3m / (4 pi d), clamped: the radius formula
\* as the claim states it
QuotientRadius(mass, density) ==
    LET q   == Quot(3 * mass * PI[2] * 1000, 4 * PI[1] * density)
        raw == Quot(Icbrt(q * 1000) * Unit, 100)
    IN  IF raw > MAX_BODY_RADIUS * Unit THEN MAX_BODY_RADIUS * Unit
        ELSE IF raw < MIN_BODY_RADIUS * Unit THEN MIN_BODY_RADIUS * Unit
        ELSE raw

\* C7: every constructed body has radius clamp((3m / (4 pi d))^(1/3), MIN, MAX)
C7_RadiusFormula ==
    \A i \in 1..Len(Bodies) :
        Bodies[i].radius = QuotientRadius(Bodies[i].mass, Bodies[i].density)

----------------------------------------------------------------------------
(* Claims about the simulation instance, checked under Spec.                *)

Toggles == {"show_vectors", "show_trails", "show_graph"}

Flags(c) == <<c.show_vectors, c.show_trails, c.show_graph>>

InBounds(b) ==
    /\ b.radius <= b.x /\ b.x <= WIDTH * Unit - b.radius
    /\ b.radius <= b.y /\ b.y <= HEIGHT * Unit - b.radius

\* C2: from the default layout on, and after every tick from any layout, each
\* of the three bodies lies within [radius, limit - radius] on both axes
C2_ClampInvariant ==
    (params = DefaultParams \/ ticks >= 1) =>
        /\ Len(Bodies) = 3
        /\ \A i \in 1..Len(Bodies) : InBounds(Bodies[i])

\* C2 witness: the default layout after MaxTicks ticks, every body moved
C2_Witness ==
    /\ params = DefaultParams
    /\ ticks = MaxTicks
    /\ Last.op = "run"
    /\ \A i \in 1..3 :
          /\ Bodies[i].x # InitCanvas(params).bodies[i].x
          /\ Len(Bodies[i].pos_history) = MaxTicks

\* C6: right after a reset the world holds exactly the three bodies of the
\* freshly constructed instance: same positions, velocities, empty histories
C6_ResetDeterminism ==
    Last.op = "reset" =>
        /\ Len(Bodies) = 3
        /\ Bodies = InitCanvas(params).bodies
        /\ \A i \in 1..3 : Bodies[i].pos_history = << >>

\* C6 witness: a reset delivered right after a tick that moved the bodies
C6_Witness ==
    /\ Last.op = "reset"
    /\ trace[2].op = "run"
    /\ Flags(canvas) # Flags(NewCanvas)
    /\ Len(Bodies) = 3

\* C8 as claimed: a second delivery of any command right after the first
\* changes nothing
C8_AllIdempotent ==
    [][(Last.op = trace'[1].op /\ Last.op \in Toggles \cup {"reset", "stop"})
          => (canvas' = canvas /\ run' = run)
      ]_vars

\* C8 amended: a second delivery of reset or of stop changes nothing; a
\* second delivery of a toggle flips the same flag again and nothing else
C8_ResetStopIdempotent ==
    [][/\ (Last.op = trace'[1].op /\ Last.op \in {"reset", "stop"})
             => (canvas' = canvas /\ run' = run)
       /\ (Last.op = trace'[1].op /\ Last.op \in Toggles)
             => /\ canvas'.bodies = canvas.bodies /\ run' = run
                /\ canvas'.show_vectors = (canvas.show_vectors # (Last.op = "show_vectors"))
                /\ canvas'.show_trails = (canvas.show_trails # (Last.op = "show_trails"))
                /\ canvas'.show_graph = (canvas.show_graph # (Last.op = "show_graph"))
      ]_vars

\* C8 witness: stop delivered twice in a row
C8_Witness ==
    /\ Last.op = "stop" /\ trace[2].op = "stop"
    /\ ~run
    /\ ticks > 0

\* C9: Canvas.reset leaves no body and the three flags as they were, and an
\* instance reset leaves the flags as they were and three bodies
C9_ResetKeepsToggles ==
    [][/\ CanvasReset(canvas).bodies = << >>
       /\ Flags(CanvasReset(canvas)) = Flags(canvas)
       /\ trace'[1].op = "reset" =>
             (Flags(canvas') = Flags(canvas) /\ Len(canvas'.bodies) = 3)
      ]_vars

\* C9 witness: right after a reset all three flags differ from their
\* construction values
C9_Witness ==
    /\ Last.op = "reset"
    /\ canvas.show_vectors /\ canvas.show_trails /\ ~canvas.show_graph
    /\ Len(Bodies) = 3

\* the bodies of an instance constructed with p after n ticks and no command
RECURSIVE Trajectory(_, _)
Trajectory(p, n) ==
    IF n = 0 THEN InitCanvas(p) ELSE SimulationRun(Trajectory(p, n - 1))

\* C10: a toggle flips its own flag and changes nothing else, and the bodies
\* are those of the run without any toggle, whatever toggles were interleaved
C10_TogglesNoPhysics ==
    [][/\ trace'[1].op \in Toggles =>
             /\ canvas'.bodies = canvas.bodies /\ run' = run
             /\ canvas'.show_vectors = (canvas.show_vectors # (trace'[1].op = "show_vectors"))
             /\ canvas'.show_trails = (canvas.show_trails # (trace'[1].op = "show_trails"))
             /\ canvas'.show_graph = (canvas.show_graph # (trace'[1].op = "show_graph"))
       /\ canvas.bodies = Trajectory(params, ticks).bodies
       /\ canvas'.bodies = Trajectory(params, ticks').bodies
      ]_vars

\* C10 witness: ticks with a toggle in between, the flags off their
\* construction values
C10_Witness ==
    /\ Last.op = "run" /\ trace[2].op \in Toggles
    /\ ticks = MaxTicks
    /\ canvas.show_vectors /\ canvas.show_trails /\ ~canvas.show_graph

----------------------------------------------------------------------------
(* SpecOrder: Canvas.update taken one call at a time.  loop.i and loop.j    *)
(* are the places of body1 and body2 in the body collection; loop.calls is  *)
(* the list of the calls the update in progress (or the last one) has made. *)

\* the layouts the update is stepped through: the two of ParamSet, one whose
\* bodies overlap, one with a threefold gravitational constant
OrderParamSet ==
    ParamSet \cup
    { [DefaultParams EXCEPT !.body_distance = 40 * Unit],
      [DefaultParams EXCEPT !.g_constant = <<18, 10>>] }

InitOrder ==
    /\ params \in OrderParamSet
    /\ canvas = InitCanvas(params)
    /\ run = TRUE
    /\ ticks = 0
    /\ trace = NoTrace
    /\ loop = NoLoop
    /\ runner = NoRunner

\* an inner loop that calls calculate_impact_on for body1 itself as well
SameBodyNever(i, j) == FALSE

\* body1 == body2
SameBody(i, j) == i = j

\* Canvas.update is entered: for body1 in self._bodies
UpdateEnter ==
    /\ loop.i = 0
    /\ ticks < MaxTicks
    /\ loop' = [i |-> 1, j |-> 1, calls |-> << >>]
    /\ trace' = Logged(Op("enter", 0, 0))
    /\ UNCHANGED <<canvas, run, params, ticks, runner>>

\* if body1 == body2: continue
InnerSkip ==
    /\ loop.i >= 1 /\ loop.i <= Len(canvas.bodies)
    /\ loop.j <= Len(canvas.bodies)
    /\ SameBody(loop.i, loop.j)
    /\ loop' = [loop EXCEPT !.j = @ + 1]
    /\ trace' = Logged(Op("skip", loop.i, loop.j))
    /\ UNCHANGED <<canvas, run, params, ticks, runner>>

\* body1.calculate_impact_on(body2)
InnerImpact ==
    /\ loop.i >= 1 /\ loop.i <= Len(canvas.bodies)
    /\ loop.j <= Len(canvas.bodies)
    /\ ~SameBody(loop.i, loop.j)
    /\ canvas' = [canvas EXCEPT !.bodies[loop.i] =
                     CalculateImpactOn(@, canvas.bodies[loop.j], loop.i = loop.j)]
    /\ loop' = [loop EXCEPT !.j = @ + 1,
                            !.calls = Append(@, Op("impact", loop.i, loop.j))]
    /\ trace' = Logged(Op("impact", loop.i, loop.j))
    /\ UNCHANGED <<run, params, ticks, runner>>

\* body1.update(), the inner loop done; on to the next body1
OuterUpdate ==
    /\ loop.i >= 1 /\ loop.i <= Len(canvas.bodies)
    /\ loop.j > Len(canvas.bodies)
    /\ canvas' = [canvas EXCEPT !.bodies[loop.i] = Update(@)]
    /\ loop' = [loop EXCEPT !.i = @ + 1, !.j = 1,
                            !.calls = Append(@, Op("update", loop.i, 0))]
    /\ trace' = Logged(Op("update", loop.i, 0))
    /\ UNCHANGED <<run, params, ticks, runner>>

\* the outer loop done: Canvas.update returns
UpdateReturn ==
    /\ loop.i > Len(canvas.bodies)
    /\ loop' = [loop EXCEPT !.i = 0, !.j = 0]
    /\ ticks' = ticks + 1
    /\ trace' = Logged(Op("return", 0, 0))
    /\ UNCHANGED <<canvas, run, params, runner>>

NextOrder ==
    \/ UpdateEnter
    \/ InnerSkip
    \/ InnerImpact
    \/ OuterUpdate
    \/ UpdateReturn

SpecOrder == InitOrder /\ [][NextOrder]_vars

\* the calls of one update of n bodies in the claimed order, from body1 = i
\* and body2 = j on
RECURSIVE CallsFrom(_, _, _)
CallsFrom(i, j, n) ==
    IF i > n THEN << >>
    ELSE IF j > n THEN <<Op("update", i, 0)>> \o CallsFrom(i + 1, 1, n)
    ELSE IF j = i THEN CallsFrom(i, j + 1, n)
    ELSE <<Op("impact", i, j)>> \o CallsFrom(i, j + 1, n)

\* how many times body k has been integrated
Integrations(k) == Len(Bodies[k].pos_history)

\* C11: the calls of an update are, in this order, for each body in insertion
\* order one calculate_impact_on per other body (none for itself) and then its
\* update(); so while body1 is at work every earlier body has been integrated
\* once more than body1 and every later one as often as body1, and after the
\* update every body has been integrated exactly once per tick, the result
\* being that of Canvas.update
C11_UpdateOrder ==
    LET n     == Len(Bodies)
        whole == CallsFrom(1, 1, n)
    IN  /\ loop.i = 0 =>
              /\ ticks > 0 => loop.calls = whole
              /\ \A k \in 1..n : Integrations(k) = ticks
              /\ Bodies = Trajectory(params, ticks).bodies
        /\ loop.i > 0 =>
              /\ loop.calls \o CallsFrom(loop.i, loop.j, n) = whole
              /\ \A k \in 1..n :
                    Integrations(k) = IF k < loop.i THEN ticks + 1 ELSE ticks

\* C11 witness: in a second update the third body has just taken the pull of
\* the first, integrated twice, and is about to take that of the second,
\* integrated twice, being itself integrated once
C11_Witness ==
    /\ loop.i = 3 /\ loop.j = 2
    /\ ticks = 1
    /\ Last = Op("impact", 3, 1)
    /\ Integrations(1) = 2 /\ Integrations(2) = 2 /\ Integrations(3) = 1
    /\ Bodies[3].vector # InitCanvas(params).bodies[3].vector

----------------------------------------------------------------------------
(* SpecRunner: the standalone program of run.py.  runner.pc is the place in *)
(* Simulation.run: "test" (while self._run), "update", "draw", "poll"       *)
(* (pygame.event.get()), "handle" (the loop over the events), "flip",       *)
(* "exit" (run returned) or "crashed" (an exception left run).              *)

MaxFrames == 2

MaxEvents == 2

\* the loop of run.py's Simulation._init_bodies, from body i on: positions
\* are not cast, mass and gravitational constant are the defaults
RECURSIVE RunnerInitBodiesLoop(_, _, _)
RunnerInitBodiesLoop(c, p, i) ==
    IF i > 3 THEN c
    ELSE LET pos  == BodiesInitPos(p)
             init_pos      == pos[i]
             next_init_pos == pos[(i % 3) + 1]
             vel_vector ==
                 << Quot((next_init_pos[1] - init_pos[1]) * DEFAULT_BODY_VELOCITY_FACTOR[1],
                         DEFAULT_BODY_VELOCITY_FACTOR[2]),
                    Quot((next_init_pos[2] - init_pos[2]) * DEFAULT_BODY_VELOCITY_FACTOR[1],
                         DEFAULT_BODY_VELOCITY_FACTOR[2]) >>
         IN  RunnerInitBodiesLoop(
                 AddBody(c, i, DEFAULT_BODY_MASS, init_pos[1], init_pos[2],
                         vel_vector, FALSE, GRAVITATIONAL_CONSTANT),
                 p, i + 1)

\* run.py Simulation._init_bodies
RunnerInitBodies(c, p) == RunnerInitBodiesLoop(c, p, 1)

\* run.py Simulation._init_canvas
RunnerInitCanvas(p) == RunnerInitBodies(NewCanvas, p)

\* the methods class Canvas defines
CanvasMethods ==
    { "toggle_draw_vectors", "toggle_draw_trails", "toggle_plot_graph",
      "reset", "draw", "add_body", "update" }

\* self._canvas.<name>() for the methods the key callbacks call: whether the
\* attribute lookup raises AttributeError, and the canvas after the call
CallCanvas(c, name) ==
    IF name \notin CanvasMethods THEN [raised |-> TRUE, canvas |-> c]
    ELSE [ raised |-> FALSE,
           canvas |-> CASE name = "toggle_draw_vectors" -> ToggleDrawVectors(c)
                        [] name = "toggle_draw_trails"  -> ToggleDrawTrails(c)
                        [] name = "toggle_plot_graph"   -> TogglePlotGraph(c)
                        [] name = "reset"               -> CanvasReset(c)
                        [] OTHER                        -> c ]

\* the Canvas method each key callback calls
ShowVectorsMethod == "toggle_vectors_display"

SwitchDrawTrailsMethod == "toggle_draw_trails"

SwitchPlotGraphMethod == "toggle_plot_graph"

\* the events pygame delivers: QUIT, KEYDOWN of a key, any other type
Event(type, key) == [type |-> type, key |-> key]

EventSet ==
    { Event("QUIT", "none"), Event("MOUSEMOTION", "none") }
    \cup { Event("KEYDOWN", k) : k \in {"v", "t", "g", "r", "x"} }

\* the event types and keys the callback maps hold
EventTypes == {"QUIT", "KEYDOWN"}

Keys == {"v", "t", "g", "r"}

\* what pygame.event.get() may return
EventLists ==
    UNION { [1..n -> EventSet] : n \in 0..MaxEvents }

\* the positions of the bodies of the runner's parameter sets
RunnerParamSet == ParamSet

InitRunner ==
    /\ params \in RunnerParamSet
    /\ canvas = RunnerInitCanvas(params)
    /\ run = TRUE
    /\ ticks = 0
    /\ trace = NoTrace
    /\ loop = NoLoop
    /\ runner = [pc |-> "test", events |-> << >>, frames |-> 0, flips |-> 0]

\* while self._run: the body is entered
LoopEnter ==
    /\ runner.pc = "test"
    /\ run
    /\ runner.frames < MaxFrames
    /\ runner' = [runner EXCEPT !.pc = "update", !.frames = @ + 1]
    /\ trace' = Logged(Op("enter", 0, 0))
    /\ UNCHANGED <<canvas, run, params, ticks, loop>>

\* while self._run: the loop is left and run returns
LoopExit ==
    /\ runner.pc = "test"
    /\ ~run
    /\ runner' = [runner EXCEPT !.pc = "exit"]
    /\ trace' = Logged(Op("exit", 0, 0))
    /\ UNCHANGED <<canvas, run, params, ticks, loop>>

\* self._clock.tick(FPS); self._canvas.update()
FrameUpdate ==
    /\ runner.pc = "update"
    /\ canvas' = CanvasUpdate(canvas)
    /\ ticks' = ticks + 1
    /\ runner' = [runner EXCEPT !.pc = "draw"]
    /\ trace' = Logged(Op("update", 0, 0))
    /\ UNCHANGED <<run, params, loop>>

\* self._draw()
FrameDraw ==
    /\ runner.pc = "draw"
    /\ runner' = [runner EXCEPT !.pc = "poll"]
    /\ trace' = Logged(Op("draw", 0, 0))
    /\ UNCHANGED <<canvas, run, params, ticks, loop>>

\* _handle_events: pygame.event.get()
PollEvents ==
    /\ runner.pc = "poll"
    /\ \E es \in EventLists : runner' = [runner EXCEPT !.pc = "handle", !.events = es]
    /\ trace' = Logged(Op("poll", 0, 0))
    /\ UNCHANGED <<canvas, run, params, ticks, loop>>

\* the event the loop of _handle_events is at
Current == Head(runner.events)

Handling == runner.pc = "handle" /\ runner.events # << >>

\* the event is done with: on to the next one
Handled == [runner EXCEPT !.events = Tail(@)]

\* the exception leaves _handle_events and run
Crashed == [runner EXCEPT !.pc = "crashed", !.events = Tail(@)]

\* an event whose type, or whose key, is in no callback map: lambda: None
HandleIgnored ==
    /\ Handling
    /\ \/ Current.type \notin EventTypes
       \/ Current.type = "KEYDOWN" /\ Current.key \notin Keys
    /\ runner' = Handled
    /\ trace' = Logged(Op("ignored", 0, 0))
    /\ UNCHANGED <<canvas, run, params, ticks, loop>>

\* QUIT: _handle_stop
HandleStopEvent ==
    /\ Handling
    /\ Current.type = "QUIT"
    /\ run' = HandleStop(run)
    /\ runner' = Handled
    /\ trace' = Logged(Op("quit", 0, 0))
    /\ UNCHANGED <<canvas, params, ticks, loop>>

\* KEYDOWN K_v: _handle_show_vectors
HandleShowVectors ==
    /\ Handling
    /\ Current.type = "KEYDOWN" /\ Current.key = "v"
    /\ LET call == CallCanvas(canvas, ShowVectorsMethod)
       IN  /\ canvas' = call.canvas
           /\ runner' = IF call.raised THEN Crashed ELSE Handled
    /\ trace' = Logged(Op("key_v", 0, 0))
    /\ UNCHANGED <<run, params, ticks, loop>>

\* KEYDOWN K_t: _handle_switch_draw_trails
HandleSwitchDrawTrails ==
    /\ Handling
    /\ Current.type = "KEYDOWN" /\ Current.key = "t"
    /\ LET call == CallCanvas(canvas, SwitchDrawTrailsMethod)
       IN  /\ canvas' = call.canvas
           /\ runner' = IF call.raised THEN Crashed ELSE Handled
    /\ trace' = Logged(Op("key_t", 0, 0))
    /\ UNCHANGED <<run, params, ticks, loop>>

\* KEYDOWN K_g: _handle_switch_plot_graph
HandleSwitchPlotGraph ==
    /\ Handling
    /\ Current.type = "KEYDOWN" /\ Current.key = "g"
    /\ LET call == CallCanvas(canvas, SwitchPlotGraphMethod)
       IN  /\ canvas' = call.canvas
           /\ runner' = IF call.raised THEN Crashed ELSE Handled
    /\ trace' = Logged(Op("key_g", 0, 0))
    /\ UNCHANGED <<run, params, ticks, loop>>

\* KEYDOWN K_r: _handle_reset
HandleReset ==
    /\ Handling
    /\ Current.type = "KEYDOWN" /\ Current.key = "r"
    /\ LET call == CallCanvas(canvas, "reset")
       IN  /\ canvas' = IF call.raised THEN call.canvas
                        ELSE RunnerInitBodies(call.canvas, params)
           /\ runner' = IF call.raised THEN Crashed ELSE Handled
           /\ ticks' = IF call.raised THEN ticks ELSE 0
    /\ trace' = Logged(Op("key_r", 0, 0))
    /\ UNCHANGED <<run, params, loop>>

\* the loop over the events is done
EventsDone ==
    /\ runner.pc = "handle"
    /\ runner.events = << >>
    /\ runner' = [runner EXCEPT !.pc = "flip"]
    /\ trace' = Logged(Op("done", 0, 0))
    /\ UNCHANGED <<canvas, run, params, ticks, loop>>

\* pygame.display.flip(): the frame is presented
FrameFlip ==
    /\ runner.pc = "flip"
    /\ runner' = [runner EXCEPT !.pc = "test", !.flips = @ + 1]
    /\ trace' = Logged(Op("flip", 0, 0))
    /\ UNCHANGED <<canvas, run, params, ticks, loop>>

NextRunner ==
    \/ LoopEnter
    \/ LoopExit
    \/ FrameUpdate
    \/ FrameDraw
    \/ PollEvents
    \/ HandleIgnored
    \/ HandleStopEvent
    \/ HandleShowVectors
    \/ HandleSwitchDrawTrails
    \/ HandleSwitchPlotGraph
    \/ HandleReset
    \/ EventsDone
    \/ FrameFlip

SpecRunner == InitRunner /\ [][NextRunner]_vars

----------------------------------------------------------------------------
(* Claims about the standalone runner *)

\* the handler that made the step
Did(name) == trace'[1].op = name

\* the step left the simulation state (run flag, toggle flags, bodies) alone
SimulationUnchanged == run' = run /\ canvas' = canvas

\* the key command completed: the loop over the events goes on
Completed == runner'.pc = "handle" /\ runner'.events = Tail(runner.events)

\* 'v' completes and flips show-vectors, and nothing else
C12_ShowVectors ==
    Did("key_v") =>
        /\ Completed
        /\ canvas' = [canvas EXCEPT !.show_vectors = ~@]
        /\ run' = run

\* 't' and 'g' complete and flip show-trails and show-graph; 'r' completes,
\* clears the bodies and creates the initial three again
C12_OtherCommands ==
    /\ Did("key_t") =>
           /\ Completed
           /\ canvas' = [canvas EXCEPT !.show_trails = ~@]
           /\ run' = run
    /\ Did("key_g") =>
           /\ Completed
           /\ canvas' = [canvas EXCEPT !.show_graph = ~@]
           /\ run' = run
    /\ Did("key_r") =>
           /\ Completed
           /\ Len(canvas'.bodies) = 3
           /\ canvas'.bodies = RunnerInitCanvas(params).bodies
           /\ Flags(canvas') = Flags(canvas)
           /\ run' = run

\* any other key or event type is ignored without error
C12_Ignored ==
    Did("ignored") => Completed /\ SimulationUnchanged

\* C12: in the standalone runner every known key command reaches an operation
\* of the canvas and completes without error ('v', 't', 'g' flip show-vectors,
\* show-trails, show-graph; 'r' clears the bodies and creates the initial three
\* again), and any other key or event type is ignored and leaves the run flag,
\* the toggle flags and the bodies unchanged.
C12_CommandDispatch ==
    [][C12_ShowVectors /\ C12_OtherCommands /\ C12_Ignored]_vars

\* a stop event only clears the run flag
C13_StopOnlyClearsRun ==
    Did("quit") =>
        /\ ~run'
        /\ canvas' = canvas
        /\ Completed
        /\ runner'.frames = runner.frames /\ runner'.flips = runner.flips

\* once the run flag is false it does not become true again
C13_RunStaysFalse == ~run => ~run'

\* after a stop no further tick starts: no frame is entered, no world update
C13_NoFurtherTick ==
    ~run => /\ runner'.frames = runner.frames
            /\ runner'.pc \notin {"update", "draw", "poll"}
            /\ ~Did("update")

\* the frame of the stop event completes: the events queued behind it are
\* handled, the frame is presented, and then run returns
C13_FrameCompletes ==
    /\ ~run' => runner'.pc # "crashed"
    /\ runner'.pc = "flip" => runner'.events = << >>
    /\ runner'.pc \in {"test", "exit"} => runner'.flips = runner'.frames

\* what is left of the frame: the events to handle, then flip, then the test
Remaining(r) ==
    CASE r.pc = "handle" -> 3 + Len(r.events)
      [] r.pc = "flip"   -> 2
      [] r.pc = "test"   -> 1
      [] OTHER           -> 0

\* after a stop every step brings the return of run nearer, and there is a
\* step to take until run has returned
C13_Terminates ==
    /\ (~run /\ vars' # vars) => Remaining(runner') < Remaining(runner)
    /\ ~run => (runner.pc = "exit" \/ ENABLED NextRunner)

\* C13: a stop (QUIT) event only clears the run flag; the frame in which it
\* is received still completes in full (remaining queued events handled, frame
\* presented), no further tick starts afterwards, the run flag never becomes
\* true again, and the loop terminates after the stop event.
C13_StopHandling ==
    [][ /\ C13_StopOnlyClearsRun
        /\ C13_RunStaysFalse
        /\ C13_NoFurtherTick
        /\ C13_FrameCompletes
        /\ C13_Terminates ]_vars

====
